---- MODULE Spec2Model ----
(***************************************************************************)
(* A model of voluptuous.py (Schema validation for Python data             *)
(* structures): the recursive validation engine (Schema.validate,          *)
(* validate_dict, validate_list, validate_scalar) and the validator        *)
(* combinators (msg, coerce, any, all).                                    *)
(*                                                                         *)
(* Python values are records [t |-> <type name>, v |-> <payload>].  A      *)
(* dictionary's payload is the sequence of its <<key, value>> items in     *)
(* iteration order (keys pairwise distinct); a list's payload is the       *)
(* sequence of its elements.  A schema is itself a Python value: a         *)
(* dictionary, a list, a scalar, a type object or a function object.       *)
(* The outcome of a call is a record: a returned value or a raised         *)
(* exception.                                                              *)
(***************************************************************************)
EXTENDS Integers, Sequences, FiniteSets, TLC

VARIABLES pc, op, in_path, in_schema, in_data, outcome

vars == <<pc, op, in_path, in_schema, in_data, outcome>>

(***************************************************************************)
(* Python values                                                           *)
(***************************************************************************)
IntV(n) == [t |-> "int", v |-> n]

StrV(s) == [t |-> "str", v |-> s]

DictV(items) == [t |-> "dict", v |-> items]

ListV(elems) == [t |-> "list", v |-> elems]

NoneV == [t |-> "NoneType", v |-> 0]

\* a type object used as a value: int, str, dict, list
TypeV(name) == [t |-> "type", v |-> name]

\* bool(x) of a Python value
Truthy(x) ==
    CASE x.t = "NoneType" -> FALSE
      [] x.t = "int" -> x.v # 0
      [] x.t = "str" -> x.v # ""
      [] x.t = "dict" -> Len(x.v) > 0
      [] x.t = "list" -> Len(x.v) > 0
      [] OTHER -> TRUE

\* callable(x): type objects and function objects
callable(x) == x.t \in {"type", "function"}

\* isinstance(x, type_): every value is an instance of object
isinstance(x, type_) == type_.v = "object" \/ x.t = type_.v

\* out[k] = val on a dictionary's items: an existing key keeps its slot and
\* gets the new value, a new key is appended
DictSet(items, k, val) ==
    IF \E i \in 1..Len(items) : items[i][1] = k
    THEN [i \in 1..Len(items) |->
             IF items[i][1] = k THEN <<k, val>> ELSE items[i]]
    ELSE Append(items, <<k, val>>)

\* x == y of two values; dictionaries compare as sets of items
PyEq(x, y) ==
    IF x.t = "dict" /\ y.t = "dict"
    THEN {x.v[i] : i \in 1..Len(x.v)} = {y.v[i] : i \in 1..Len(y.v)}
    ELSE x = y

(***************************************************************************)
(* Outcomes: a return value or a raised exception                          *)
(***************************************************************************)
Ok(val) == [k |-> "ok", v |-> val]

\* Invalid.__init__: self.path = path or []
Invalid(message, path) == [k |-> "Invalid", msg |-> message, path |-> path]

SchemaError(message) == [k |-> "SchemaError", msg |-> message]

\* exceptions of the Python runtime that the library does not define
ValueError == [k |-> "ValueError"]

TypeError == [k |-> "TypeError"]

\* the value None of the local variable error in validate_dict
NoError == [k |-> "None"]

Pending == [k |-> "pending"]

(***************************************************************************)
(* The builtin constructors int() and str() on the strings of the model    *)
(***************************************************************************)
\* int(s) for the decimal strings of the model; any other string is a
\* ValueError
IntOfStr == ("0" :> 0) @@ ("1" :> 1) @@ ("5" :> 5) @@ ("05" :> 5) @@ ("10" :> 10)

\* str(n) for the integers int() can yield here
StrOfInt == (0 :> "0") @@ (1 :> "1") @@ (5 :> "5") @@ (10 :> "10")

PyInt(x) ==
    CASE x.t = "int" -> Ok(x)
      [] x.t = "str" -> IF x.v \in DOMAIN IntOfStr
                        THEN Ok(IntV(IntOfStr[x.v])) ELSE ValueError
      [] OTHER -> TypeError

RECURSIVE PyRepr(_)
RECURSIVE JoinRepr(_, _, _)

\* ", ".join of the reprs of elems[i..]; items of a dictionary print as k: v
JoinRepr(elems, i, isdict) ==
    IF i > Len(elems) THEN ""
    ELSE (IF isdict THEN PyRepr(elems[i][1]) \o ": " \o PyRepr(elems[i][2])
                    ELSE PyRepr(elems[i]))
         \o (IF i < Len(elems) THEN ", " ELSE "")
         \o JoinRepr(elems, i + 1, isdict)

PyRepr(x) ==
    CASE x.t = "int" -> StrOfInt[x.v]
      [] x.t = "str" -> "'" \o x.v \o "'"
      [] x.t = "NoneType" -> "None"
      [] x.t = "list" -> "[" \o JoinRepr(x.v, 1, FALSE) \o "]"
      [] x.t = "dict" -> "{" \o JoinRepr(x.v, 1, TRUE) \o "}"
      [] OTHER -> "<" \o x.t \o ">"

PyStr(x) == IF x.t = "str" THEN Ok(x) ELSE Ok(StrV(PyRepr(x)))

\* type(v) for a type object used as a conversion function
Construct(type_, x) ==
    CASE type_.v = "int" -> PyInt(x)
      [] type_.v = "str" -> PyStr(x)
      [] OTHER -> TypeError

(***************************************************************************)
(* Function objects: the closures f returned by the combinators, and a     *)
(* bare user function lambda v: type(v)                                    *)
(***************************************************************************)
msg(schema, m) == [t |-> "function", f |-> "msg", schema |-> schema, msg |-> m]

coerce(type_, m) == [t |-> "function", f |-> "coerce", type |-> type_, msg |-> m]

any(validators, m) ==
    [t |-> "function", f |-> "any", validators |-> validators, msg |-> m]

all(validators, m) ==
    [t |-> "function", f |-> "all", validators |-> validators, msg |-> m]

lambda(type_) == [t |-> "function", f |-> "lambda", type |-> type_]

(***************************************************************************)
(* The validation engine (class Schema) and the combinator closures        *)
(***************************************************************************)
RECURSIVE validate(_, _, _)
RECURSIVE validate_dict(_, _, _)
RECURSIVE dict_items(_, _, _, _, _)
RECURSIVE dict_alternatives(_, _, _, _, _, _)
RECURSIVE validate_list(_, _, _)
RECURSIVE list_items(_, _, _, _, _)
RECURSIVE list_alternatives(_, _, _, _, _, _)
RECURSIVE validate_scalar(_, _, _)
RECURSIVE Call(_, _)
RECURSIVE any_f(_, _, _, _)
RECURSIVE all_f(_, _, _, _)

\* Schema.validate: dispatch on the type of the schema node; a type object
\* stands for itself
validate(path, schema, data) ==
    LET type_ == IF schema.t = "type" THEN schema.v ELSE schema.t
    IN  IF type_ = "dict" THEN validate_dict(path, schema, data)
        ELSE IF type_ = "list" THEN validate_list(path, schema, data)
        ELSE IF type_ \in {"int", "long", "str", "unicode", "float",
                           "complex", "object"} \/ callable(schema)
        THEN validate_scalar(path, schema, data)
        ELSE SchemaError("unsupported schema data type '" \o schema.t \o "'")

\* the state of the loop of validate_dict
DictState(out, invalid, error) ==
    [out |-> out, invalid |-> invalid, error |-> error]

\* the loop goes on to the next data item with state st
Continue(st) == [k |-> "continue", st |-> st]

\* except Invalid around the key's validation: a deeper error is re-raised,
\* any other is remembered and the next alternative is tried
remember_key_error(st, e) ==
    DictState(st.out,
              StrV(e.msg \o " for dictionary key"),
              IF st.error = NoError \/ Len(e.path) > Len(st.error.path)
              THEN e ELSE st.error)

\* value_error without the test of the error's depth: the suffix is appended
\* to deeper errors too
value_error_always_tagged(e, key_path) ==
    Invalid(e.msg \o " for dictionary value", e.path)

\* except Invalid around the value's validation
value_error(e, key_path) ==
    IF Len(e.path) > Len(key_path) THEN e
    ELSE Invalid(e.msg \o " for dictionary value", e.path)

\* the else clause of the loop over the schema's items: no key matched
no_key_matched(path, key_path, st) ==
    IF Truthy(st.invalid)
    THEN IF Len(st.error.path) > Len(path) + 1 THEN st.error
         ELSE Invalid(st.invalid.v, key_path)
    ELSE Continue(st)

\* the key matched as new_key: the value is validated against svalue alone
key_selected(key_path, svalue, value, new_key, st) ==
    LET r == validate(key_path, svalue, value)
    IN  CASE r.k = "ok" ->
               Continue(DictState(DictSet(st.out, new_key, r.v),
                                  st.invalid, st.error))
          [] r.k = "Invalid" -> value_error(r, key_path)
          [] OTHER -> r

\* dict_alternatives with backtracking: a value that fails the selected
\* alternative's value schema at the key's depth sends the key on to the
\* next alternative
dict_alternatives_backtracking(path, schema, key, value, j, st) ==
    LET key_path == Append(path, key)
    IN  IF schema.t # "dict" THEN TypeError
        ELSE IF j > Len(schema.v) THEN no_key_matched(path, key_path, st)
        ELSE LET skey == schema.v[j][1]
                 svalue == schema.v[j][2]
                 r == validate(key_path, skey, key)
                 selected == key_selected(key_path, svalue, value, r.v, st)
             IN  CASE r.k = "ok" ->
                        IF selected.k = "Invalid" /\ j < Len(schema.v)
                           /\ Len(selected.path) <= Len(key_path)
                        THEN dict_alternatives(path, schema, key, value,
                                               j + 1, st)
                        ELSE selected
                   [] r.k = "Invalid" ->
                        IF Len(r.path) > Len(key_path) THEN r
                        ELSE dict_alternatives(path, schema, key, value, j + 1,
                                               remember_key_error(st, r))
                   [] OTHER -> r

\* for skey, svalue in schema.iteritems(), from the j-th item on, for one
\* data item (key, value); iterating over a type object is a TypeError
dict_alternatives(path, schema, key, value, j, st) ==
    LET key_path == Append(path, key)
    IN  IF schema.t # "dict" THEN TypeError
        ELSE IF j > Len(schema.v) THEN no_key_matched(path, key_path, st)
        ELSE LET skey == schema.v[j][1]
                 svalue == schema.v[j][2]
                 r == validate(key_path, skey, key)
             IN  CASE r.k = "ok" ->
                        key_selected(key_path, svalue, value, r.v, st)
                   [] r.k = "Invalid" ->
                        IF Len(r.path) > Len(key_path) THEN r
                        ELSE dict_alternatives(path, schema, key, value, j + 1,
                                               remember_key_error(st, r))
                   [] OTHER -> r

\* for key, value in data.iteritems(), from the i-th item on
dict_items(path, schema, data, i, st) ==
    IF i > Len(data.v) THEN Ok(DictV(st.out))
    ELSE LET r == dict_alternatives(path, schema, data.v[i][1], data.v[i][2],
                                    1, st)
         IN  IF r.k = "continue"
             THEN dict_items(path, schema, data, i + 1, r.st)
             ELSE r

\* Schema.validate_dict
validate_dict(path, schema, data) ==
    IF ~isinstance(data, TypeV("dict"))
    THEN Invalid("expected a dictionary", path)
    ELSE IF ~Truthy(schema) THEN Ok(data)
    ELSE dict_items(path, schema, data, 1, DictState(<<>>, NoneV, NoError))

\* index_path_of counting the elements from 1
index_path_from_one(path, i) == Append(path, IntV(i))

\* the path of the i-th element (enumerate counts from 0)
index_path_of(path, i) == Append(path, IntV(i - 1))

\* no_alternative raising the remembered error of the last alternative in
\* place of the generic message
no_alternative_remembered(invalid, index_path) == invalid

\* the else clause of the loop over the list schema: every alternative failed
no_alternative(invalid, index_path) ==
    IF Len(invalid.path) > Len(index_path) THEN invalid
    ELSE Invalid("invalid list value", index_path)

\* for s in schema, from the j-th alternative on, for the i-th element;
\* iterating over a type object is a TypeError
list_alternatives(path, schema, data, i, j, invalid) ==
    LET index_path == index_path_of(path, i)
    IN  IF schema.t # "list" THEN TypeError
        ELSE IF j > Len(schema.v) THEN no_alternative(invalid, index_path)
        ELSE LET r == validate(index_path, schema.v[j], data.v[i])
             IN  CASE r.k = "ok" -> r
                   [] r.k = "Invalid" ->
                        IF Len(r.path) > Len(index_path) THEN r
                        ELSE list_alternatives(path, schema, data, i, j + 1, r)
                   [] OTHER -> r

\* for i, value in enumerate(data), from the i-th element on
list_items(path, schema, data, i, out) ==
    IF i > Len(data.v) THEN Ok(ListV(out))
    ELSE LET r == list_alternatives(path, schema, data, i, 1, NoError)
         IN  IF r.k = "ok"
             THEN list_items(path, schema, data, i + 1, Append(out, r.v))
             ELSE r

\* Schema.validate_list
validate_list(path, schema, data) ==
    IF ~isinstance(data, TypeV("list"))
    THEN Invalid("expected a list", path)
    ELSE IF ~Truthy(schema) THEN Ok(data)
    ELSE list_items(path, schema, data, 1, <<>>)

\* Schema.validate_scalar
validate_scalar(path, schema, data) ==
    IF schema.t = "type"
    THEN IF ~isinstance(data, schema)
         THEN Invalid("expected " \o schema.v, path)
         ELSE Ok(data)
    ELSE IF callable(schema)
    THEN LET r == Call(schema, data)
         IN  CASE r.k = "ValueError" -> Invalid("not a valid value", path)
               [] r.k = "Invalid" -> Invalid(r.msg, path \o r.path)
               [] OTHER -> r
    ELSE IF ~PyEq(data, schema)
         THEN Invalid("not a valid value", path)
         ELSE Ok(data)

\* msg_f replacing the message only of failures of the wrapped node itself
msg_f_node_only(schema, m, v) ==
    LET r == validate(<<>>, schema, v)
    IN  IF r.k = "Invalid"
        THEN IF Len(r.path) > 0 THEN r ELSE Invalid(m.v, <<>>)
        ELSE r

\* the closure f of msg(schema, msg); Schema(schema)(v) is
\* validate([], schema, v)
msg_f(schema, m, v) ==
    LET r == validate(<<>>, schema, v)
    IN  IF r.k = "Invalid"
        THEN IF Len(r.path) > 1 THEN r ELSE Invalid(m.v, <<>>)
        ELSE r

\* the closure f of coerce(type, msg)
coerce_f(type_, m, v) ==
    LET r == Construct(type_, v)
    IN  IF r.k = "ValueError"
        THEN Invalid(IF Truthy(m) THEN m.v ELSE "expected " \o type_.v, <<>>)
        ELSE r

\* a user function lambda v: type(v), which lets ValueError escape
lambda_f(type_, v) == Construct(type_, v)

\* any_f returning the last validator's success in place of the first
any_f_last_success(validators, m, v, j) ==
    IF j > Len(validators)
    THEN Invalid(IF Truthy(m) THEN m.v ELSE "no valid value found", <<>>)
    ELSE LET r == validate_scalar(<<>>, validators[j], v)
             later == any_f(validators, m, v, j + 1)
         IN  IF r.k = "Invalid" \/ later.k = "ok" THEN later ELSE r

\* the closure f of any(*validators, msg=m), from the j-th validator on
any_f(validators, m, v, j) ==
    IF j > Len(validators)
    THEN Invalid(IF Truthy(m) THEN m.v ELSE "no valid value found", <<>>)
    ELSE LET r == validate_scalar(<<>>, validators[j], v)
         IN  IF r.k = "Invalid" THEN any_f(validators, m, v, j + 1) ELSE r

\* all_f giving every stage the original input
all_f_unthreaded(validators, m, v, j) ==
    IF j > Len(validators) THEN Ok(v)
    ELSE LET r == validate_scalar(<<>>, validators[j], v)
         IN  CASE r.k = "ok" -> all_f(validators, m, v, j + 1)
               [] r.k = "Invalid" ->
                    Invalid(IF Truthy(m) THEN m.v ELSE r.msg, <<>>)
               [] OTHER -> r

\* the closure f of all(*validators, msg=m), from the j-th validator on
all_f(validators, m, v, j) ==
    IF j > Len(validators) THEN Ok(v)
    ELSE LET r == validate_scalar(<<>>, validators[j], v)
         IN  CASE r.k = "ok" -> all_f(validators, m, r.v, j + 1)
               [] r.k = "Invalid" ->
                    Invalid(IF Truthy(m) THEN m.v ELSE r.msg, <<>>)
               [] OTHER -> r

\* fn(v) for a function object fn
Call(fn, v) ==
    CASE fn.f = "msg" -> msg_f(fn.schema, fn.msg, v)
      [] fn.f = "coerce" -> coerce_f(fn.type, fn.msg, v)
      [] fn.f = "lambda" -> lambda_f(fn.type, v)
      [] fn.f = "any" -> any_f(fn.validators, fn.msg, v, 1)
      [] fn.f = "all" -> all_f(fn.validators, fn.msg, v, 1)

\* Schema.__call__
Schema_call(schema, data) == validate(<<>>, schema, data)

(***************************************************************************)
(* Inputs: bounded families of schemas and data                            *)
(***************************************************************************)
\* the largest number of items of a data dictionary, or elements of a list
MaxItems == 2

\* the largest number of alternatives of a generated dictionary or list
\* schema, and of validators of any() and all()
MaxAlternatives == 2

SeqsUpTo(S, n) == UNION {[1..m -> S] : m \in 0..n}

NonEmptySeqsUpTo(S, n) == UNION {[1..m -> S] : m \in 1..n}

IsInjectiveOnKeys(items) ==
    \A i, j \in 1..Len(items) : items[i][1] = items[j][1] => i = j

\* every dictionary with at most n items over the given keys and values, in
\* every iteration order
DictsUpTo(keys, values, n) ==
    {DictV(items) : items \in {q \in SeqsUpTo(keys \X values, n) :
                                   IsInjectiveOnKeys(q)}}

ListsUpTo(elems, n) == {ListV(q) : q \in SeqsUpTo(elems, n)}

int == TypeV("int")

str == TypeV("str")

Dict1(key, value) == DictV(<< <<key, value>> >>)

Dict2(key1, value1, key2, value2) ==
    DictV(<< <<key1, value1>>, <<key2, value2>> >>)

\* dictionary schemas and the dictionaries validated against them
KeySchemas == {str, int, StrV("x"), coerce(int, NoneV)}

ValueSchemas == {int, str, StrV("x"), Dict1(StrV("x"), int)}

\* the keys of a dictionary schema are pairwise distinct too
MapSchemas ==
    {DictV(q) : q \in {a \in NonEmptySeqsUpTo(KeySchemas \X ValueSchemas,
                                               MaxAlternatives) :
                          IsInjectiveOnKeys(a)}}

MapKeys == {StrV("x"), StrV("1"), IntV(1)}

MapValues == {IntV(5), StrV("x"), Dict1(StrV("x"), StrV("x"))}

MapData == DictsUpTo(MapKeys, MapValues, MaxItems)

\* list schemas and the lists validated against them
ElementSchemas ==
    {int, StrV("x"), coerce(int, NoneV), Dict1(StrV("x"), int), TypeV("object")}

ListSchemas ==
    {ListV(q) : q \in NonEmptySeqsUpTo(ElementSchemas, MaxAlternatives)}

Elements == {IntV(5), StrV("x"), StrV("5"), Dict1(StrV("x"), StrV("x"))}

ListData == ListsUpTo(Elements, MaxItems)

\* schemas that are one node, and every kind of data
LeafSchemas ==
    {int, str, TypeV("dict"), TypeV("list"), TypeV("object"),
     StrV("x"), IntV(5), NoneV, DictV(<<>>), ListV(<<>>), lambda(int)}

Scalars == {IntV(5), IntV(1), StrV("x"), StrV("5"), StrV("1"), NoneV}

AllData == Scalars \cup MapData \cup ListData

\* nested schemas with the data of the documentation's examples
Examples ==
    { <<Dict2(str, int, StrV("x"), str), Dict1(StrV("x"), IntV(5))>>,
      <<Dict2(StrV("x"), str, str, int), Dict1(StrV("x"), IntV(5))>>,
      <<Dict1(StrV("a"), Dict1(StrV("b"), int)),
        Dict1(StrV("a"), Dict1(StrV("b"), StrV("x")))>>,
      <<Dict1(StrV("a"), Dict1(StrV("b"), int)),
        Dict1(StrV("a"), Dict1(StrV("b"), IntV(5)))>>,
      <<ListV(<<Dict1(StrV("a"), int)>>),
        ListV(<<Dict1(StrV("a"), StrV("y"))>>)>>,
      <<ListV(<<Dict1(StrV("a"), int)>>),
        ListV(<<Dict1(StrV("a"), IntV(5))>>)>>,
      <<ListV(<<ListV(<<int>>), StrV("x")>>),
        ListV(<<ListV(<<StrV("x")>>)>>)>>,
      <<Dict2(StrV("one"), StrV("two"), StrV("three"), StrV("four")),
        Dict1(StrV("one"), StrV("three"))>>,
      <<Dict2(StrV("one"), StrV("two"), StrV("three"), StrV("four")),
        Dict1(StrV("two"), StrV("three"))>>,
      <<Dict2(StrV("one"), StrV("two"), int, str),
        Dict1(StrV("10"), StrV("twenty"))>>,
      <<Dict2(StrV("one"), StrV("two"), coerce(int, NoneV), str),
        Dict1(StrV("10"), StrV("twenty"))>> }

\* the validators combined by any() and all(), their messages and inputs
Validators ==
    {StrV("1"), int, coerce(int, NoneV), coerce(str, NoneV),
     msg(ListV(<<ListV(<<int>>)>>), StrV("nested"))}

Messages == {NoneV, StrV("custom")}

CombinatorData ==
    {StrV("1"), StrV("05"), StrV("x"), IntV(1),
     ListV(<<ListV(<<StrV("x")>>)>>)}

\* the schemas wrapped by msg() and their inputs
WrappedSchemas ==
    {int, coerce(int, NoneV), ListV(<<int>>), ListV(<<ListV(<<int>>)>>),
     Dict1(StrV("x"), int), Dict1(StrV("x"), Dict1(StrV("x"), int)),
     ListV(<<Dict1(StrV("x"), ListV(<<int>>))>>)}

WrappedData ==
    {IntV(5), StrV("5"), StrV("x"), ListV(<<IntV(5)>>), ListV(<<StrV("x")>>),
     ListV(<<ListV(<<IntV(5)>>)>>), ListV(<<ListV(<<StrV("x")>>)>>),
     Dict1(StrV("x"), IntV(5)), Dict1(StrV("x"), StrV("x")),
     Dict1(StrV("x"), Dict1(StrV("x"), StrV("x"))),
     Dict1(StrV("y"), IntV(5)),
     ListV(<<Dict1(StrV("x"), ListV(<<StrV("x")>>))>>)}

\* the paths validate() is entered with: the root, and a node below it
Paths == {<<>>, <<StrV("p")>>}

(***************************************************************************)
(* The state machine: an input is drawn, then one operation is applied     *)
(***************************************************************************)
InitEngine ==
    /\ op \in {"Schema_call", "validate"}
    /\ in_path \in (IF op = "Schema_call" THEN {<<>>} ELSE Paths \ {<<>>})
    /\ \/ in_schema \in MapSchemas /\ in_data \in MapData
       \/ in_schema \in ListSchemas /\ in_data \in ListData
       \/ in_schema \in LeafSchemas /\ in_data \in AllData
       \/ in_schema \in MapSchemas \cup ListSchemas /\ in_data \in Scalars
       \/ \E e \in Examples : in_schema = e[1] /\ in_data = e[2]
       \/ /\ in_schema \in {msg(w, StrV("custom")) : w \in WrappedSchemas}
          /\ in_data \in WrappedData

InitScalar ==
    /\ op = "validate_scalar"
    /\ in_path \in Paths
    /\ in_schema \in LeafSchemas \ {DictV(<<>>), ListV(<<>>)}
    /\ in_data \in Scalars \cup {DictV(<<>>), Dict1(StrV("x"), IntV(5)),
                                 ListV(<<>>), ListV(<<IntV(5)>>)}

InitCombinator ==
    /\ in_path = <<>>
    /\ \/ /\ op = "any"
          /\ in_schema \in {any(q, m) : q \in SeqsUpTo(Validators,
                                                       MaxAlternatives),
                                        m \in Messages}
          /\ in_data \in CombinatorData
       \/ /\ op = "all"
          /\ in_schema \in {all(q, m) : q \in SeqsUpTo(Validators,
                                                       MaxAlternatives),
                                        m \in Messages}
          /\ in_data \in CombinatorData
       \/ /\ op = "msg"
          /\ in_schema \in {msg(w, StrV("custom")) : w \in WrappedSchemas}
          /\ in_data \in WrappedData
       \/ /\ op = "coerce"
          /\ in_schema \in {coerce(ty, m) : ty \in {int, str}, m \in Messages}
          /\ in_data \in AllData \cup CombinatorData

Init ==
    /\ pc = "start"
    /\ outcome = Pending
    /\ (InitEngine \/ InitScalar \/ InitCombinator)

Return(r) ==
    /\ pc' = "done"
    /\ outcome' = r
    /\ UNCHANGED <<op, in_path, in_schema, in_data>>

\* Schema(schema)(data)
DoSchemaCall ==
    pc = "start" /\ op = "Schema_call" /\ Return(Schema_call(in_schema, in_data))

\* self.validate(path, schema, data) below the root
DoValidate ==
    pc = "start" /\ op = "validate"
    /\ Return(validate(in_path, in_schema, in_data))

\* Schema.validate_scalar(path, schema, data)
DoValidateScalar ==
    pc = "start" /\ op = "validate_scalar"
    /\ Return(validate_scalar(in_path, in_schema, in_data))

\* any(*validators, msg=m)(v)
DoAny == pc = "start" /\ op = "any" /\ Return(Call(in_schema, in_data))

\* all(*validators, msg=m)(v)
DoAll == pc = "start" /\ op = "all" /\ Return(Call(in_schema, in_data))

\* msg(schema, m)(v)
DoMsg == pc = "start" /\ op = "msg" /\ Return(Call(in_schema, in_data))

\* coerce(type, m)(v)
DoCoerce == pc = "start" /\ op = "coerce" /\ Return(Call(in_schema, in_data))

Next ==
    \/ DoSchemaCall
    \/ DoValidate
    \/ DoValidateScalar
    \/ DoAny
    \/ DoAll
    \/ DoMsg
    \/ DoCoerce

Spec == Init /\ [][Next]_vars

Done == pc = "done"

(***************************************************************************)
(* Vocabulary of the properties                                            *)
(***************************************************************************)
EngineOp == op \in {"Schema_call", "validate"}

IsPrefix(p, q) == Len(p) <= Len(q) /\ SubSeq(q, 1, Len(p)) = p

\* the part of path q below its first n segments
Below(q, n) == SubSeq(q, n + 1, Len(q))

Front(q) == SubSeq(q, 1, Len(q) - 1)

\* a data error no deeper than path p
Shallow(r, p) == r.k = "Invalid" /\ Len(r.path) <= Len(p)

\* a data error strictly deeper than path p
Deeper(r, p) == r.k = "Invalid" /\ Len(r.path) > Len(p)

\* the messages of the matchers before a dictionary suffix is appended
MatcherMessages ==
    {"expected int", "expected str", "expected dict", "expected list",
     "expected a dictionary", "expected a list", "not a valid value",
     "invalid list value"}

\* a non-empty dictionary schema applied to a dictionary
MapCase ==
    /\ Done /\ EngineOp
    /\ in_schema.t = "dict" /\ Len(in_schema.v) > 0
    /\ in_data.t = "dict"

\* the path of the i-th data item's key
KeyPathOf(i) == Append(in_path, in_data.v[i][1])

\* the i-th data key against the key schema of the j-th alternative
KeyResult(i, j) ==
    validate(KeyPathOf(i), in_schema.v[j][1], in_data.v[i][1])

\* the i-th data value against the value schema of the j-th alternative
ValueResult(i, j) ==
    validate(KeyPathOf(i), in_schema.v[j][2], in_data.v[i][2])

\* alternative j is the first whose key schema accepts the i-th data key
Committed(i, j) ==
    /\ KeyResult(i, j).k = "ok"
    /\ \A h \in 1..(j - 1) : Shallow(KeyResult(i, h), KeyPathOf(i))

\* every alternative's key schema rejects the i-th data key, none deeper
\* than the key's path
Unmatched(i) ==
    \A j \in 1..Len(in_schema.v) : Shallow(KeyResult(i, j), KeyPathOf(i))

\* the data items before the i-th validate on their own
ItemsBeforeOk(i) ==
    validate(in_path, in_schema, DictV(SubSeq(in_data.v, 1, i - 1))).k = "ok"

\* a non-empty list schema applied to a list
ListCase ==
    /\ Done /\ EngineOp
    /\ in_schema.t = "list" /\ Len(in_schema.v) > 0
    /\ in_data.t = "list"

IndexPathOf(i) == Append(in_path, IntV(i - 1))

\* the i-th element against the j-th alternative
ElementResult(i, j) == validate(IndexPathOf(i), in_schema.v[j], in_data.v[i])

\* alternative j is the first that accepts the i-th element
FirstAccepting(i, j) ==
    /\ ElementResult(i, j).k = "ok"
    /\ \A h \in 1..(j - 1) : Shallow(ElementResult(i, h), IndexPathOf(i))

\* alternative j is the first that fails deeper than the i-th element
FirstDeeper(i, j) ==
    /\ Deeper(ElementResult(i, j), IndexPathOf(i))
    /\ \A h \in 1..(j - 1) : Shallow(ElementResult(i, h), IndexPathOf(i))

Accepted(i) == \E j \in 1..Len(in_schema.v) : FirstAccepting(i, j)

Rejected(i) ==
    \A j \in 1..Len(in_schema.v) : Shallow(ElementResult(i, j), IndexPathOf(i))

(***************************************************************************)
(* C1                                                                      *)
(***************************************************************************)
C1_Data == Dict1(StrV("x"), IntV(5))

\* the alternatives in the order the claim gives
C1_TypeKeyFirst == Dict2(str, int, StrV("x"), str)

\* the alternatives in the opposite order
C1_LiteralKeyFirst == Dict2(StrV("x"), str, str, int)

\* C1 as stated: validating {"x": 5} against the schema whose alternatives
\* are, in order, (str -> int) and ("x" -> str) fails with a data error at
\* path ["x"] whose message ends in " for dictionary value".
C1_Original ==
    (Done /\ op = "Schema_call" /\ in_schema = C1_TypeKeyFirst
          /\ in_data = C1_Data)
    => /\ outcome.k = "Invalid"
       /\ outcome.path = <<StrV("x")>>
       /\ \E m \in MatcherMessages : outcome.msg = m \o " for dictionary value"

\* C1 amended: with the alternatives in the order ("x" -> str), (str -> int)
\* validating {"x": 5} fails at path ["x"] with "expected str for dictionary
\* value"; in the order (str -> int), ("x" -> str) the call succeeds and
\* returns {"x": 5}.
C1_Amended ==
    (Done /\ op = "Schema_call" /\ in_data = C1_Data)
    => /\ in_schema = C1_LiteralKeyFirst
          => outcome = Invalid("expected str for dictionary value",
                               <<StrV("x")>>)
       /\ in_schema = C1_TypeKeyFirst => outcome = Ok(C1_Data)

C1_Witness ==
    /\ Done /\ op = "Schema_call"
    /\ in_schema = C1_LiteralKeyFirst /\ in_data = C1_Data
    /\ outcome.k = "Invalid"

(***************************************************************************)
(* C2                                                                      *)
(***************************************************************************)
\* C2: in the map matcher the first alternative whose key schema accepts a
\* data key is committed: when the value fails that alternative's value
\* schema the validation fails at once, with the failing error's path, and
\* with " for dictionary value" appended to the message exactly when the
\* path is no longer than the key's path; no later alternative is tried.
C2_CommitOnKey ==
    MapCase =>
      \A i \in 1..Len(in_data.v) : \A j \in 1..Len(in_schema.v) :
        (ItemsBeforeOk(i) /\ Committed(i, j)) =>
          LET e == ValueResult(i, j)
          IN  /\ Shallow(e, KeyPathOf(i))
                 => outcome = Invalid(e.msg \o " for dictionary value", e.path)
              /\ Deeper(e, KeyPathOf(i)) => outcome = e
              /\ (e.k = "ok" /\ i = Len(in_data.v) /\ outcome.k = "ok")
                 => \E n \in 1..Len(outcome.v.v) :
                       outcome.v.v[n] = <<KeyResult(i, j).v, e.v>>

\* a key is committed to an alternative whose value schema rejects the
\* value although a later alternative accepts both key and value
C2_Witness ==
    /\ MapCase
    /\ \E i \in 1..Len(in_data.v) : \E j, h \in 1..Len(in_schema.v) :
          /\ ItemsBeforeOk(i) /\ Committed(i, j)
          /\ Shallow(ValueResult(i, j), KeyPathOf(i))
          /\ j < h
          /\ KeyResult(i, h).k = "ok" /\ ValueResult(i, h).k = "ok"
    /\ outcome.k = "Invalid"

(***************************************************************************)
(* C3                                                                      *)
(***************************************************************************)
RECURSIVE PlainSchema(_)

\* a schema built only from mapping, sequence, type-token and literal nodes
PlainSchema(schema) ==
    CASE schema.t \in {"type", "int", "str"} -> TRUE
      [] schema.t = "dict" ->
           \A n \in 1..Len(schema.v) :
              PlainSchema(schema.v[n][1]) /\ PlainSchema(schema.v[n][2])
      [] schema.t = "list" ->
           \A n \in 1..Len(schema.v) : PlainSchema(schema.v[n])
      [] OTHER -> FALSE

RECURSIVE Reaches(_, _)

\* q is a sequence of keys and indices that leads from data to one of its
\* nodes
Reaches(data, q) ==
    IF q = <<>> THEN TRUE
    ELSE CASE data.t = "dict" ->
                \E n \in 1..Len(data.v) :
                   data.v[n][1] = Head(q) /\ Reaches(data.v[n][2], Tail(q))
           [] data.t = "list" ->
                /\ Head(q).t = "int"
                /\ Head(q).v \in 0..(Len(data.v) - 1)
                /\ Reaches(data.v[Head(q).v + 1], Tail(q))
           [] OTHER -> FALSE

RECURSIVE NodeAt(_, _)

\* the node of data that q leads to
NodeAt(data, q) ==
    IF q = <<>> THEN data
    ELSE IF data.t = "dict"
    THEN NodeAt((CHOOSE item \in {data.v[n] : n \in 1..Len(data.v)} :
                    item[1] = Head(q))[2], Tail(q))
    ELSE NodeAt(data.v[Head(q).v + 1], Tail(q))

\* the failure reported by message at q was detected at the node q names
DetectedAt(message, q) ==
    /\ message = "expected a dictionary" => NodeAt(in_data, q).t # "dict"
    /\ message = "expected a list" => NodeAt(in_data, q).t # "list"
    /\ message = "invalid list value"
       => q # <<>> /\ NodeAt(in_data, Front(q)).t = "list"
    /\ message \in {m \o " for dictionary key" : m \in MatcherMessages}
          \cup {m \o " for dictionary value" : m \in MatcherMessages}
       => q # <<>> /\ NodeAt(in_data, Front(q)).t = "dict"
    /\ message \in {"expected int for dictionary value", "expected int"}
       => NodeAt(in_data, q).t # "int"
    /\ message \in {"expected str for dictionary value", "expected str"}
       => NodeAt(in_data, q).t # "str"

C3_NestedMap == Dict1(StrV("a"), Dict1(StrV("b"), int))

C3_NestedList == ListV(<<Dict1(StrV("a"), int)>>)

\* C3: for a schema of mapping, sequence, type-token and literal nodes, the
\* path of every data error raised by validate(path, schema, data) is path
\* followed by exactly the keys and indices that lead to the node where the
\* failure was detected; an error strictly deeper than the current key or
\* element is re-raised by the enclosing matcher unchanged; {"a": {"b": "x"}}
\* against {"a": {"b": int}} fails at ["a", "b"], and [{"a": "y"}] against
\* [{"a": int}] fails at [0, "a"], not with the generic list message.
C3_ErrorPath ==
    (Done /\ EngineOp /\ PlainSchema(in_schema)) =>
      /\ outcome.k = "Invalid" =>
           /\ IsPrefix(in_path, outcome.path)
           /\ Reaches(in_data, Below(outcome.path, Len(in_path)))
           /\ DetectedAt(outcome.msg, Below(outcome.path, Len(in_path)))
      /\ (MapCase /\ Len(in_data.v) > 0 /\ KeyResult(1, 1).k = "ok"
                  /\ Deeper(ValueResult(1, 1), KeyPathOf(1)))
         => outcome = ValueResult(1, 1)
      /\ (ListCase /\ Len(in_data.v) > 0
                   /\ Deeper(ElementResult(1, 1), IndexPathOf(1)))
         => outcome = ElementResult(1, 1)
      /\ (in_schema = C3_NestedMap
            /\ in_data = Dict1(StrV("a"), Dict1(StrV("b"), StrV("x"))))
         => /\ outcome.k = "Invalid"
            /\ outcome.path = in_path \o <<StrV("a"), StrV("b")>>
      /\ (in_schema = C3_NestedList
            /\ in_data = ListV(<<Dict1(StrV("a"), StrV("y"))>>))
         => /\ outcome.k = "Invalid"
            /\ outcome.path = in_path \o <<IntV(0), StrV("a")>>
            /\ outcome.msg # "invalid list value"

\* validate() entered below the root with the nested list of the example:
\* the error of the inner dictionary is re-raised by the list matcher
C3_Witness ==
    /\ Done /\ op = "validate" /\ in_path # <<>>
    /\ in_schema = C3_NestedList
    /\ in_data = ListV(<<Dict1(StrV("a"), StrV("y"))>>)
    /\ outcome = Invalid("expected int for dictionary value",
                         in_path \o <<IntV(0), StrV("a")>>)

(***************************************************************************)
(* C4                                                                      *)
(***************************************************************************)
\* C4: for every type-token schema T (including the mapping and sequence
\* types) and every data value d, validation returns d itself when d is an
\* instance of T and otherwise raises the data error "expected <name of T>"
\* at the current path; no other outcome is possible.
C4_TypeToken ==
    (Done /\ EngineOp /\ in_schema.t = "type") =>
      outcome = IF isinstance(in_data, in_schema)
                THEN Ok(in_data)
                ELSE Invalid("expected " \o in_schema.v, in_path)

(***************************************************************************)
(* C5                                                                      *)
(***************************************************************************)
\* the j-th validator of any() or all() applied to value v by the scalar
\* matcher
Attempt(j, v) == validate_scalar(<<>>, in_schema.validators[j], v)

\* the message a combinator raises with: the caller's, or the default
MessageOr(default) ==
    IF in_schema.msg = NoneV THEN default ELSE in_schema.msg.v

RECURSIVE Piped(_, _)

\* the outcome of the first j stages of all() on value v: the output of
\* stage j, or the failure of the first stage that fails
Piped(j, v) ==
    IF j = 0 THEN Ok(v)
    ELSE LET before == Piped(j - 1, v)
         IN  IF before.k = "ok" THEN Attempt(j, before.v) ELSE before

MsgWrapper == in_schema.t = "function" /\ in_schema.f = "msg"

\* the wrapped schema applied at the wrap point
Wrapped == validate(<<>>, in_schema.schema, in_data)

\* C7: msg(schema, m) returns the wrapped schema's result when it accepts;
\* a failure whose path relative to the wrap point has length at most 1 is
\* raised as message m at the wrap point; a failure with a relative path of
\* length 2 or more propagates with its message and relative path, and the
\* enclosing engine reports it with the wrap point's path as prefix.
C7_Msg ==
    /\ (Done /\ op = "msg") =>
         /\ Wrapped.k = "ok" => outcome = Wrapped
         /\ Shallow(Wrapped, <<0>>) => outcome = Invalid(in_schema.msg.v, <<>>)
         /\ Deeper(Wrapped, <<0>>) => outcome = Wrapped
    /\ (Done /\ EngineOp /\ MsgWrapper) =>
         /\ Wrapped.k = "ok" => outcome = Wrapped
         /\ Shallow(Wrapped, <<0>>)
            => outcome = Invalid(in_schema.msg.v, in_path)
         /\ Deeper(Wrapped, <<0>>)
            => outcome = Invalid(Wrapped.msg, in_path \o Wrapped.path)

\* a wrapper below the root whose wrapped schema fails two levels down
C7_Witness ==
    /\ Done /\ op = "validate" /\ in_path # <<>> /\ MsgWrapper
    /\ Deeper(Wrapped, <<0>>)
    /\ outcome.path = in_path \o Wrapped.path

(***************************************************************************)
(* C8                                                                      *)
(***************************************************************************)
\* C8: when a map validates against a non-empty mapping schema, the output
\* has exactly one entry for every entry of the input (as many entries as
\* the input), keyed by the validated key and holding the validated value,
\* also when the key validators transform keys.
C8_MirrorsInput ==
    (MapCase /\ outcome.k = "ok") =>
      /\ Len(outcome.v.v) = Len(in_data.v)
      /\ \A i \in 1..Len(in_data.v) : \A j \in 1..Len(in_schema.v) :
            Committed(i, j)
            => \E n \in 1..Len(outcome.v.v) :
                  outcome.v.v[n] = <<KeyResult(i, j).v, ValueResult(i, j).v>>

(***************************************************************************)
(* C9                                                                      *)
(***************************************************************************)
\* alternative j gave the best-ranked rejection of the i-th data key: the
\* longest path, and the first encountered among those
BestRanked(i, j) ==
    /\ \A h \in 1..Len(in_schema.v) :
          Len(KeyResult(i, h).path) <= Len(KeyResult(i, j).path)
    /\ \A h \in 1..(j - 1) :
          Len(KeyResult(i, h).path) < Len(KeyResult(i, j).path)

\* C9: when every alternative's key schema rejects a data key k, none deeper
\* than k's path, validation fails at parent path + [k] with the message of
\* the best-ranked rejection (longest path, first encountered on ties)
\* followed by " for dictionary key".
C9_BestRankedKeyError ==
    MapCase =>
      \A i \in 1..Len(in_data.v) : \A j \in 1..Len(in_schema.v) :
        (ItemsBeforeOk(i) /\ Unmatched(i) /\ BestRanked(i, j))
        => outcome = Invalid(KeyResult(i, j).msg \o " for dictionary key",
                             KeyPathOf(i))

(***************************************************************************)
(* C10                                                                     *)
(***************************************************************************)
\* C10: in the list matcher elements are processed in index order and the
\* alternatives in schema order; on success the output has the input's
\* length and its i-th item is the result of the first alternative that
\* accepts element i; a failure strictly deeper than parent path + [i]
\* propagates at once; when every alternative fails no deeper than that,
\* the error is "invalid list value" at parent path + [i].
C10_List ==
    ListCase =>
      /\ outcome.k = "ok" =>
           /\ outcome.v.t = "list"
           /\ Len(outcome.v.v) = Len(in_data.v)
           /\ \A i \in 1..Len(in_data.v) : \E j \in 1..Len(in_schema.v) :
                 FirstAccepting(i, j) /\ outcome.v.v[i] = ElementResult(i, j).v
      /\ \A i \in 1..Len(in_data.v) :
           (\A h \in 1..(i - 1) : Accepted(h)) =>
             /\ \A j \in 1..Len(in_schema.v) :
                   FirstDeeper(i, j) => outcome = ElementResult(i, j)
             /\ Rejected(i)
                => outcome = Invalid("invalid list value", IndexPathOf(i))

\* an alternative fails deeper than the element although a later alternative
\* accepts the element
C10_Witness ==
    /\ ListCase
    /\ \E i \in 1..Len(in_data.v) : \E j, h \in 1..Len(in_schema.v) :
          /\ \A g \in 1..(i - 1) : Accepted(g)
          /\ FirstDeeper(i, j)
          /\ j < h /\ ElementResult(i, h).k = "ok"
          /\ outcome = ElementResult(i, j)

====
